---- MODULE Spec2Model ----
(***************************************************************************)
(* Model of the fragment extraction pipeline of disco-dop                  *)
(* (src/discodop/fragments.py): the workload planner, the coordinator of   *)
(* regular() with its merge, exact counting and cover phases, the         *)
(* iterative closure of recurringfragments(), the formatter                *)
(* printfragments(), and main() with its validation and batch().           *)
(*                                                                         *)
(* A Python dict is modelled as a sequence of <<key, value>> pairs with    *)
(* distinct keys, in insertion order.  A work interval (start, end) is the *)
(* tuple <<start, end>>.  The primitives of the native _fragments module   *)
(* are inputs: the maps they return are drawn from small sets.             *)
(***************************************************************************)
EXTENDS Integers, Sequences, FiniteSets, TLC

\* ------------------------------------------------------------------ bounds
MaxTrees == 8       \* trees of a treebank, planner specification
MaxProc == 4        \* worker processes, planner specification
MaxMult == 2        \* granularity multiplier, planner specification
RegTrees == 2       \* trees of treebank1, coordinator specifications
RegProc == 3        \* worker processes, coordinator specifications
NumKeys == 2        \* distinct fragment keys the primitives may report
MaxRes == 2         \* entries of one map returned by a primitive
MaxFrags == 3       \* fragments passed to printfragments
MaxCount == 2       \* largest frequency passed to printfragments

VARIABLES
    pc,           \* position of the coordinator
    numtrees,     \* number of trees of treebank1 that are compared
    numproc,      \* number of worker processes
    mult,         \* granularity multiplier
    twobanks,     \* len(filenames) == 2
    work,         \* the planned work: intervals, later count chunks
    approx,       \* PARAMS['approx']
    nofreq,       \* PARAMS['nofreq']
    complete,     \* PARAMS['complete']
    coverOn,      \* PARAMS['cover'] is set / maxdepth > 0
    results,      \* what the extraction primitive returns for each interval
    finished,     \* jobs of the current phase the workers have completed,
                  \* in completion order
    taken,        \* jobs of the current phase whose result was consumed
    fragments,    \* the merged fragment map
    fragmentkeys, \* list(fragments), later extended
    counts,       \* the list of counts
    hascounts,    \* FALSE when counts is None
    cover,        \* the map returned by allfragments
    iterate,      \* recurringfragments(iterate=...)
    disc,         \* recurringfragments(disc=...)
    round,        \* iterations of the closure loop started so far
    newfrags,     \* the keys the next closure round turns into trees
    trees,        \* number of pseudo-trees accumulated by the closure
    err,          \* the exception that ended the run, "none" if none
    indices,      \* PARAMS['indices']
    relfreq,      \* PARAMS['relfreq']
    complement,   \* PARAMS['complement']
    adjacent,     \* PARAMS['adjacent']
    out,          \* the lines written to the output, in order
    pos,          \* fragments the current loop of printfragments has passed
    sums,         \* printfragments: sum of frequencies per root label
    twoterms,     \* PARAMS['twoterms']
    batchdir,     \* TRUE when --batch=<dir> is given
    args,         \* the treebank arguments: paths <<directory, basename>>
    missing,      \* TRUE when some treebank argument does not exist
    cpus,         \* what cpu_count() returns
    loads,        \* the treebank arguments read so far, in order
    cur,          \* batch(): position in args of the current treebank B
    files,        \* the output directory: name -> <<writer, lines>>
    pool,         \* regular(): the worker pool, "none", "open" or "closed"
    crashed,      \* <<phase, job>> of the jobs whose worker process died
    emptied,      \* the treebank arguments initworker found empty
    alt,          \* PARAMS['alt']
    debin         \* --debin is given

vars == <<pc, numtrees, numproc, mult, twobanks, work, approx, nofreq,
          complete, coverOn, results, finished, taken, fragments,
          fragmentkeys, counts, hascounts, cover, iterate, disc, round,
          newfrags, trees, err, indices, relfreq, complement, adjacent, out,
          pos, sums, twoterms, batchdir, args, missing, cpus, loads, cur,
          files, pool, crashed, emptied, alt, debin>>

\* the state of printfragments
printvars == <<indices, relfreq, complement, adjacent, out, pos, sums>>

\* the state of main() and batch()
mainvars == <<twoterms, batchdir, args, missing, cpus, loads, cur, files>>

\* the worker processes and what initworker found
procvars == <<pool, crashed, emptied>>

\* the options that rewrite the fragments for the output
fmtvars == <<alt, debin>>

\* the state the coordinators never touch
extvars == <<printvars, mainvars, procvars, fmtvars>>

\* printfragments is not running
PrintIdle ==
    /\ indices = FALSE /\ relfreq = FALSE /\ complement = FALSE
    /\ adjacent = FALSE
    /\ out = <<>> /\ pos = 0 /\ sums = <<>>

\* main() and batch() are not running
MainIdle ==
    /\ twoterms = FALSE /\ batchdir = FALSE /\ args = <<>>
    /\ missing = FALSE /\ cpus = 1 /\ loads = <<>> /\ cur = 0
    /\ files = <<>>

\* no worker pool exists and no treebank was read
ProcIdle ==
    /\ pool = "none" /\ crashed = {} /\ emptied = {}
    /\ alt = FALSE /\ debin = FALSE

closurevars == <<iterate, disc, round, newfrags, trees>>

planvars == <<numtrees, numproc, mult, twobanks>>
flagvars == <<approx, nofreq, complete, coverOn>>

\* --------------------------------------------------------------- helpers
Min(a, b) == IF a < b THEN a ELSE b

\* range(start, stop, step) as a sequence, step > 0
RECURSIVE Range(_, _, _)
Range(start, stop, step) ==
    IF start >= stop THEN <<>>
    ELSE <<start>> \o Range(start + step, stop, step)

\* ------------------------------------------------------- dict operations
\* Fragment keys are opaque to the coordinator (it hashes and compares
\* them), so they are numbers, named in the order in which a run first
\* meets them.  Occurrence values are bitsets (exact) or counts
\* (approximate); the coordinator copies, compares and adds them, and two
\* distinct values tell all of these apart.
Keys == 1..NumKeys
Vals == {1, 2}

\* the maps a primitive may return: at most MaxRes entries, distinct keys
ResultDicts ==
    UNION { { d \in [1..n -> Keys \X Vals] :
                \A i, j \in 1..n : i # j => d[i][1] # d[j][1] }
            : n \in 0..MaxRes }

SeqRange(s) == { s[i] : i \in 1..Len(s) }

\* list(d)
DictKeys(d) == [i \in 1..Len(d) |-> d[i][1]]

\* [d[a] for a in d]
DictValues(d) == [i \in 1..Len(d) |-> d[i][2]]

KeySet(d) == { d[i][1] : i \in 1..Len(d) }

\* d[k], for k in d
DictGet(d, k) == d[CHOOSE i \in 1..Len(d) : d[i][1] = k][2]

\* d[k] = v: an existing key keeps its position, a new key goes last
DictSet(d, k, v) ==
    IF k \in KeySet(d)
    THEN [i \in 1..Len(d) |-> IF d[i][1] = k THEN <<k, v>> ELSE d[i]]
    ELSE Append(d, <<k, v>>)

\* for frag, x in results.items(): fragments[frag] += x   (defaultdict(int))
RECURSIVE DictAdd(_, _)
DictAdd(d, r) ==
    IF r = <<>> THEN d
    ELSE LET k == Head(r)[1]
             old == IF k \in KeySet(d) THEN DictGet(d, k) ELSE 0
         IN  DictAdd(DictSet(d, k, old + Head(r)[2]), Tail(r))

\* fragments.update(results)
RECURSIVE DictUpdate(_, _)
DictUpdate(d, r) ==
    IF r = <<>> THEN d
    ELSE DictUpdate(DictSet(d, Head(r)[1], Head(r)[2]), Tail(r))

\* the keys of the first n maps of res, each key once, at the place of its
\* first occurrence
RECURSIVE DiscoveryOf(_, _)
DiscoveryOf(res, n) ==
    IF n = 0 THEN <<>>
    ELSE LET before == DiscoveryOf(res, n - 1)
             new == SelectSeq(DictKeys(res[n]),
                              LAMBDA k : k \notin SeqRange(before))
         IN  before \o new

\* keys are named in the order in which they are first met
InOrder(keys, from) == \A i \in 1..Len(keys) : keys[i] = from + i

\* plausible slips: the mode flag is not consulted
MergeResultUpdate(frags, res, isapprox) == DictUpdate(frags, res)

MergeResultAdd(frags, res, isapprox) == DictAdd(frags, res)

\* the body of "for results in dowork"
MergeResult(frags, res, isapprox) ==
    IF isapprox THEN DictAdd(frags, res) ELSE DictUpdate(frags, res)

\* ------------------------------------------------------- workload planner
\* the body of "for n in range(1, numtrees)" and the tail; the floats of
\* the code are integral (numtrees * (numtrees - 1) is even), so togo,
\* goal and chunk are integers here.
RECURSIVE WorkloadLoop(_, _, _, _, _, _, _)
WorkloadLoop(n, nt, chunk, togo, goal, last, result) ==
    IF n >= nt
    THEN IF last < nt THEN Append(result, <<last, nt>>) ELSE result
    ELSE LET togo2 == togo - (nt - n)
         IN  IF togo2 <= goal
             THEN WorkloadLoop(n + 1, nt, chunk, togo2, goal - chunk,
                               n, Append(result, <<last, n>>))
             ELSE WorkloadLoop(n + 1, nt, chunk, togo2, goal, last, result)

\* a plausible slip: the tail interval (last, numtrees) is not appended
RECURSIVE WorkloadLoopNoTail(_, _, _, _, _, _, _)
WorkloadLoopNoTail(n, nt, chunk, togo, goal, last, result) ==
    IF n >= nt
    THEN result
    ELSE LET togo2 == togo - (nt - n)
         IN  IF togo2 <= goal
             THEN WorkloadLoopNoTail(n + 1, nt, chunk, togo2, goal - chunk,
                                     n, Append(result, <<last, n>>))
             ELSE WorkloadLoopNoTail(n + 1, nt, chunk, togo2, goal,
                                     last, result)

WorkloadNoTail(nt, m, np) ==
    IF np = 1 THEN <<<<0, nt>>>>
    ELSE LET total == (nt * (nt - 1)) \div 2
             chunk == (total \div (m * np)) + 1
         IN  WorkloadLoopNoTail(1, nt, chunk, total, total - chunk, 0, <<>>)

\* a plausible slip: mult is left out of the size of a chunk
WorkloadNoMult(nt, m, np) ==
    IF np = 1 THEN <<<<0, nt>>>>
    ELSE LET total == (nt * (nt - 1)) \div 2
             chunk == (total \div np) + 1
         IN  WorkloadLoop(1, nt, chunk, total, total - chunk, 0, <<>>)

\* a plausible slip: a single process gets the general division
WorkloadNoShortcut(nt, m, np) ==
    LET total == (nt * (nt - 1)) \div 2
        chunk == (total \div (m * np)) + 1
    IN  WorkloadLoop(1, nt, chunk, total, total - chunk, 0, <<>>)

Workload(nt, m, np) ==
    IF np = 1 THEN <<<<0, nt>>>>
    ELSE LET total == (nt * (nt - 1)) \div 2
             chunk == (total \div (m * np)) + 1
         IN  WorkloadLoop(1, nt, chunk, total, total - chunk, 0, <<>>)

\* a plausible slip: range(0, numtrees + 1, chunk)
SizeWorkInclusive(nt, m, np) ==
    LET chunk == (nt \div (m * np)) + 1
        starts == Range(0, nt + 1, chunk)
    IN  [i \in 1..Len(starts) |-> <<starts[i], starts[i] + chunk>>]

\* the size-based plan of regular() when two treebanks are given
SizeWork(nt, m, np) ==
    LET chunk == (nt \div (m * np)) + 1
        starts == Range(0, nt, chunk)
    IN  [i \in 1..Len(starts) |-> <<starts[i], starts[i] + chunk>>]

\* line 369 of worker: assert offset < trees1.len, for the intervals of w
\* and a treebank of len trees; TRUE when the assertion fails for one
AssertFails(w, len) == \E i \in 1..Len(w) : ~(w[i][1] < len)

\* ------------------------------------------------ specification: planning
InitPlan ==
    /\ pc = "plan"
    /\ numtrees \in 1..MaxTrees
    /\ numproc \in 1..MaxProc
    /\ mult \in 1..MaxMult
    /\ twobanks \in BOOLEAN
    /\ work = <<>>
    /\ approx = FALSE /\ nofreq = FALSE /\ complete = FALSE
    /\ coverOn = FALSE
    /\ results = <<>> /\ finished = <<>> /\ taken = {}
    /\ fragments = <<>> /\ fragmentkeys = <<>> /\ counts = <<>>
    /\ hascounts = TRUE /\ cover = <<>>
    /\ iterate = FALSE /\ disc = FALSE /\ round = 0
    /\ newfrags = <<>> /\ trees = 0
    /\ err = "none" /\ PrintIdle /\ MainIdle /\ ProcIdle

PlanCost ==
    /\ pc = "plan"
    /\ ~twobanks
    /\ work' = Workload(numtrees, mult, numproc)
    /\ pc' = "planned"
    /\ UNCHANGED <<err, extvars, planvars, flagvars, results, finished, taken, fragments,
                   fragmentkeys, counts, hascounts, cover, closurevars>>

PlanSize ==
    /\ pc = "plan"
    /\ twobanks
    /\ work' = SizeWork(numtrees, mult, numproc)
    /\ pc' = "planned"
    /\ UNCHANGED <<err, extvars, planvars, flagvars, results, finished, taken, fragments,
                   fragmentkeys, counts, hascounts, cover, closurevars>>

\* --------------------------------------------------- worker pool and jobs
\* map and pool.imap yield the results in submission order: the next
\* result the coordinator gets is that of job len(taken) + 1, once that
\* job has finished (0: nothing to yield yet)
NextJobUnordered(fin, tk) ==
    IF \E i \in 1..Len(fin) : fin[i] \notin tk
    THEN fin[CHOOSE i \in 1..Len(fin) :
                /\ fin[i] \notin tk
                /\ \A j \in 1..(i - 1) : fin[j] \in tk]
    ELSE 0

\* a plausible slip: the result of a job whose worker died is passed over
NextJobSkipLost(fin, tk) ==
    LET j == Cardinality(tk) + 1
    IN  IF j \in SeqRange(fin) \/ <<pc, j>> \in crashed THEN j ELSE 0

NextJob(fin, tk) ==
    LET j == Cardinality(tk) + 1
    IN  IF j \in SeqRange(fin) THEN j ELSE 0

\* the jobs of the current phase whose worker process died
Lost == { j \in 1..Len(work) : <<pc, j>> \in crashed }

\* job j is being executed: with numproc = 1 the jobs run lazily, one by
\* one, when the coordinator asks for the next result; a pool runs at most
\* numproc jobs at a time, started in submission order, and replaces a
\* worker process that died
Running(j) ==
    /\ j \in 1..Len(work)
    /\ j \notin SeqRange(finished)
    /\ j \notin Lost
    /\ numproc = 1 => j = Cardinality(taken) + 1
    /\ numproc # 1 =>
         Cardinality({i \in 1..(j - 1) :
                         i \notin SeqRange(finished) /\ i \notin Lost})
            < numproc

\* job j can complete now
CanFinish(j) == Running(j)

\* a plausible slip: the loop over the results stops one result early
AllTakenButLast == Cardinality(taken) >= Len(work) - 1

\* "for results in dowork" is exhausted
AllTaken == Cardinality(taken) = Len(work)

\* ---------------------------------------------------------- exact counts
\* exactcounts(trees1, haystack, bitsets): the count of a bitset is decided
\* by the native primitive and the corpus it counts in; distinct bitsets
\* and distinct corpora give counts that can be told apart
ExactCountOf(b, corpus) == 10 * corpus + b

ExactCounts(bitsets, corpus) ==
    [i \in 1..Len(bitsets) |-> ExactCountOf(bitsets[i], corpus)]

\* a plausible slip: the second treebank is the haystack whenever given
CountCorpusSecond == IF twobanks THEN 2 ELSE 1

\* exactcountworker: complete-match counts in treebank2, else in treebank1
CountCorpus == IF complete THEN 2 ELSE 1

\* a plausible slip: the slice is one element short
CountWorkShort(bitsets, np) ==
    LET countchunk == (Len(bitsets) \div np) + 1
        starts == Range(0, Len(bitsets), countchunk)
    IN  [n \in 1..Len(starts) |->
            <<n - 1, Len(starts),
              SubSeq(bitsets, starts[n] + 1,
                     Min(starts[n] + countchunk - 1, Len(bitsets)))>>]

\* a plausible slip: the chunk size is len(bitsets) // numproc
CountWorkFloor(bitsets, np) ==
    LET floor == Len(bitsets) \div np
        countchunk == IF floor = 0 THEN 1 ELSE floor
        starts == Range(0, Len(bitsets), countchunk)
    IN  [n \in 1..Len(starts) |->
            <<n - 1, Len(starts),
              SubSeq(bitsets, starts[n] + 1,
                     Min(starts[n] + countchunk, Len(bitsets)))>>]

\* the chunks (n, len(work), bitsets[a:a + countchunk]) of the count phase
CountWork(bitsets, np) ==
    LET countchunk == (Len(bitsets) \div np) + 1
        starts == Range(0, Len(bitsets), countchunk)
    IN  [n \in 1..Len(starts) |->
            <<n - 1, Len(starts),
              SubSeq(bitsets, starts[n] + 1,
                     Min(starts[n] + countchunk, Len(bitsets)))>>]

\* lines 215-219 (and 481-485, 569-575): the values of a fragment map of
\* any size are divided for counting
PlanCount ==
    /\ pc = "plan"
    /\ \E n \in 0..MaxTrees : fragments' = [i \in 1..n |-> <<i, 1 + (i % 2)>>]
    /\ work' = CountWork(DictValues(fragments'), numproc)
    /\ pc' = "chunked"
    /\ UNCHANGED <<err, extvars, planvars, flagvars, results, finished, taken,
                   fragmentkeys, counts, hascounts, cover, closurevars>>

NextPlan == PlanCost \/ PlanSize \/ PlanCount

SpecPlan == InitPlan /\ [][NextPlan]_vars

\* ------------------------------------------------------------ cover merge
\* for a in cover: if a not in fragments: fragmentkeys.append(a)
RECURSIVE CoverKeys(_, _, _)
CoverKeys(keys, frags, cov) ==
    IF cov = <<>> THEN keys
    ELSE CoverKeys(IF Head(cov)[1] \notin KeySet(frags)
                   THEN Append(keys, Head(cov)[1]) ELSE keys,
                   frags, Tail(cov))

\* a plausible slip: the count of a key that is present is replaced
RECURSIVE CoverCountsOverwrite(_, _, _, _)
CoverCountsOverwrite(cnts, keys, frags, cov) ==
    IF cov = <<>> THEN cnts
    ELSE LET k == Head(cov)[1]
         IN  CoverCountsOverwrite(
                 IF k \notin KeySet(frags)
                 THEN Append(cnts, Head(cov)[2])
                 ELSE [i \in 1..Len(cnts) |->
                          IF keys[i] = k THEN Head(cov)[2] ELSE cnts[i]],
                 keys, frags, Tail(cov))

\* for a in cover: if a not in fragments: counts.append(cover[a])
RECURSIVE CoverCounts(_, _, _, _)
CoverCounts(cnts, keys, frags, cov) ==
    IF cov = <<>> THEN cnts
    ELSE CoverCounts(IF Head(cov)[1] \notin KeySet(frags)
                     THEN Append(cnts, Head(cov)[2]) ELSE cnts,
                     keys, frags, Tail(cov))

\* the keys of cover that are absent from fragments, in cover's order
Absent(frags, cov) == CoverKeys(<<>>, frags, cov)

\* ------------------------------------------- specification: regular()
RegularWork(nt, m, np, two) ==
    IF two THEN SizeWork(nt, m, np) ELSE Workload(nt, m, np)

InitRegular ==
    /\ pc = "regular"
    /\ numtrees \in 1..RegTrees
    /\ numproc \in 1..RegProc
    /\ mult = 1
    /\ twobanks \in BOOLEAN
    /\ approx \in BOOLEAN /\ nofreq \in BOOLEAN /\ complete \in BOOLEAN
    /\ coverOn \in BOOLEAN
    \* main() rejects the other combinations before regular() is called
    /\ complete => (twobanks /\ ~approx /\ ~nofreq)
    \* the runs explored: several intervals on at most two processes
    \* without cover, or one interval on any number of processes
    /\ numtrees > 1 => (numproc <= 2 /\ ~coverOn)
    /\ work = <<>> /\ results = <<>> /\ finished = <<>> /\ taken = {}
    /\ fragments = <<>> /\ fragmentkeys = <<>> /\ counts = <<>>
    /\ hascounts = TRUE /\ cover = <<>>
    /\ iterate = FALSE /\ disc = FALSE /\ round = 0
    /\ newfrags = <<>> /\ trees = 0
    /\ err = "none" /\ PrintIdle /\ ProcIdle
    \* main() passes one or two treebank arguments
    /\ args = IF twobanks THEN << <<1, 1>>, <<1, 2>> >> ELSE << <<1, 1>> >>
    /\ twoterms = FALSE /\ batchdir = FALSE /\ missing = FALSE
    /\ cpus = 1 /\ loads = <<>> /\ cur = 0 /\ files = <<>>

\* a plausible slip: only the first treebank is checked
EmptyErrorFirstOnly(e, n) ==
    IF 1 \in e THEN "ValueError: treebank1 empty." ELSE "none"

\* lines 341-349: the error initworker raises when, of n treebanks, those
\* in e have no tree; "none" if it raises nothing
EmptyError(e, n) ==
    IF 1 \in e THEN "ValueError: treebank1 empty."
    ELSE IF n = 2 /\ 2 \in e THEN "ValueError: treebank2 empty."
    ELSE "none"

\* lines 172-182: regular() reads the treebanks in the coordinator with
\* initworker (329-352), which treebanks have no tree is an input; only
\* then, with numproc # 1, the worker pool is created
RegularLoad ==
    /\ pc = "regular"
    /\ loads' = loads \o [i \in 1..Len(args) |-> i]
    /\ emptied' \in SUBSET (1..Len(args))
    /\ IF EmptyError(emptied', Len(args)) # "none"
       THEN /\ pc' = "error" /\ err' = EmptyError(emptied', Len(args))
            /\ twobanks' = twobanks /\ pool' = pool
       ELSE /\ pc' = "start" /\ err' = err
            /\ twobanks' = (Len(args) = 2)
            /\ pool' = IF numproc = 1 THEN "none" ELSE "open"
    /\ UNCHANGED <<numtrees, numproc, mult, flagvars, work, results, finished,
                   taken, fragments, fragmentkeys, counts, hascounts, cover,
                   closurevars, printvars, twoterms, batchdir, args,
                   missing, cpus, cur, files, crashed, fmtvars>>

\* lines 192-200: plan the intervals and submit one job per interval; what
\* the extraction primitive returns for an interval is an input
Dispatch ==
    /\ pc = "start" /\ ~complete
    /\ work' = RegularWork(numtrees, mult, numproc, twobanks)
    /\ results' \in [1..Len(work') -> ResultDicts]
    /\ InOrder(DiscoveryOf(results', Len(work')), 0)
    /\ finished' = <<>> /\ taken' = {}
    /\ pc' = "extract"
    /\ UNCHANGED <<err, extvars, planvars, flagvars, fragments, fragmentkeys, counts,
                   hascounts, cover,
                   closurevars>>

\* lines 186-190: complete-match mode, no interval split
CompleteBitsets ==
    /\ pc = "start" /\ complete
    /\ fragments' \in ResultDicts
    /\ InOrder(DictKeys(fragments'), 0)
    /\ pc' = "merged"
    /\ UNCHANGED <<err, extvars, planvars, flagvars, work, results, finished, taken,
                   fragmentkeys, counts, hascounts, cover,
                   closurevars>>

\* a worker returns from worker(interval), or its assertion fails; the
\* treebank has the numtrees trees the plan was made for (lines 183-184)
ExtractFinish(j) ==
    /\ pc = "extract"
    /\ CanFinish(j)
    /\ IF AssertFails(<<work[j]>>, numtrees)
       THEN /\ pc' = "error" /\ err' = "AssertionError"
            /\ finished' = finished
       ELSE /\ finished' = Append(finished, j)
            /\ pc' = pc /\ err' = err
    /\ UNCHANGED <<extvars, planvars, flagvars, work, results, taken, fragments,
                   fragmentkeys, counts, hascounts, cover,
                   closurevars>>

\* lines 201-206: one iteration of "for results in dowork"
ExtractMerge ==
    /\ pc = "extract"
    /\ NextJob(finished, taken) # 0
    /\ LET j == NextJob(finished, taken)
       IN  /\ fragments' = MergeResult(fragments, results[j], approx)
           /\ taken' = taken \cup {j}
    /\ UNCHANGED <<err, extvars, pc, planvars, flagvars, work, results, finished,
                   fragmentkeys, counts, hascounts, cover,
                   closurevars>>

\* lines 207-221: list the keys; counts are absent, the merged values, or
\* the work of the exact counting phase is divided
StartCount ==
    /\ \/ pc = "extract" /\ AllTaken
       \/ pc = "merged"
    /\ fragmentkeys' = DictKeys(fragments)
    /\ IF nofreq
       THEN /\ hascounts' = FALSE /\ counts' = <<>>
            /\ pc' = "cover"
            /\ UNCHANGED <<work, finished, taken,
                   closurevars>>
       ELSE IF approx
       THEN /\ hascounts' = TRUE /\ counts' = DictValues(fragments)
            /\ pc' = "cover"
            /\ UNCHANGED <<work, finished, taken,
                   closurevars>>
       ELSE /\ hascounts' = TRUE /\ counts' = <<>>
            /\ work' = CountWork(DictValues(fragments), numproc)
            /\ finished' = <<>> /\ taken' = {}
            /\ pc' = "count"
    /\ UNCHANGED <<err, extvars, planvars, flagvars, results, fragments, cover,
                   closurevars>>

\* a worker returns from exactcountworker(args)
CountFinish(j) ==
    /\ pc = "count"
    /\ CanFinish(j)
    /\ finished' = Append(finished, j)
    /\ UNCHANGED <<err, extvars, pc, planvars, flagvars, work, results, taken, fragments,
                   fragmentkeys, counts, hascounts, cover,
                   closurevars>>

\* lines 222-223: one iteration of "for a in mymap(exactcountworker, work)"
CountCollect ==
    /\ pc = "count"
    /\ NextJob(finished, taken) # 0
    /\ LET j == NextJob(finished, taken)
       IN  /\ counts' = counts \o ExactCounts(work[j][3], CountCorpus)
           /\ taken' = taken \cup {j}
    /\ UNCHANGED <<err, extvars, pc, planvars, flagvars, work, results, finished,
                   fragments, fragmentkeys, hascounts, cover,
                   closurevars>>

\* a plausible slip: the cover merge does not wait for the count jobs
CountDoneEarly == pc = "cover" \/ pc = "count"

\* the counts are complete: "for a in mymap(exactcountworker, work)" is
\* exhausted, or no job was needed
CountDone == pc = "cover" \/ (pc = "count" /\ AllTaken)

\* lines 224-236: the cover merge; counts.append raises when counts is None
CoverMerge ==
    /\ CountDone
    /\ coverOn
    /\ cover' \in ResultDicts
    /\ InOrder(Absent(fragments, cover'), Len(fragments))
    /\ IF ~hascounts /\ Absent(fragments, cover') # <<>>
       THEN /\ fragmentkeys' =
                 Append(fragmentkeys, Head(Absent(fragments, cover')))
            /\ counts' = counts
            /\ pc' = "error"
       ELSE /\ fragmentkeys' = CoverKeys(fragmentkeys, fragments, cover')
            /\ counts' = IF hascounts
                         THEN CoverCounts(counts, fragmentkeys, fragments,
                                          cover')
                         ELSE counts
            /\ pc' = "teardown"
    /\ UNCHANGED <<extvars, planvars, flagvars, work, results, finished, taken,
                   fragments, hascounts,
                   closurevars>>
    /\ err' = IF pc' = "error" THEN "AttributeError" ELSE err
NoCover ==
    /\ CountDone
    /\ ~coverOn
    /\ pc' = "teardown"
    /\ UNCHANGED <<err, extvars, planvars, flagvars, work, results, finished, taken,
                   fragments, fragmentkeys, counts, hascounts, cover,
                   closurevars>>

\* lines 237-241: close the pool and return; "del dowork" raises when no
\* extraction job was ever dispatched
Return ==
    /\ pc = "teardown"
    /\ pc' = IF numproc # 1 /\ complete THEN "error" ELSE "done"
    /\ pool' = IF numproc # 1 THEN "closed" ELSE pool
    /\ UNCHANGED <<printvars, mainvars, crashed, emptied, fmtvars, planvars,
                   flagvars, work, results, finished, taken,
                   fragments, fragmentkeys, counts, hascounts, cover,
                   closurevars>>
    /\ err' = IF pc' = "error" THEN "UnboundLocalError" ELSE err
NextRegular ==
    \/ RegularLoad
    \/ Dispatch
    \/ CompleteBitsets
    \/ \E j \in 1..(RegProc + 2) : ExtractFinish(j)
    \/ ExtractMerge
    \/ StartCount
    \/ \E j \in 1..(RegProc + 2) : CountFinish(j)
    \/ CountCollect
    \/ CoverMerge
    \/ NoCover
    \/ Return

SpecRegular == InitRegular /\ [][NextRegular]_vars

\* ------------------------------- specification: regular(), workers may die
\* a worker process dies (segmentation fault, kill) while it executes job
\* j: the job never completes and nothing tells the coordinator
WorkerCrash(j) ==
    /\ pc \in {"extract", "count"}
    /\ pool = "open"
    /\ Running(j)
    /\ crashed' = crashed \cup {<<pc, j>>}
    /\ UNCHANGED <<err, pc, printvars, mainvars, pool, emptied, fmtvars, planvars,
                   flagvars, work, results, finished, taken, fragments,
                   fragmentkeys, counts, hascounts, cover, closurevars>>

NextCrash ==
    \/ NextRegular
    \/ \E j \in 1..(RegProc + 2) : WorkerCrash(j)

SpecCrash == InitRegular /\ [][NextCrash]_vars

\* ------------------------------------- specification: recurringfragments()
\* "for _ in range(10)"
Rounds == 10

\* for a in mymap(worker, work): fragments.update(a)
RECURSIVE MergeAll(_, _, _)
MergeAll(res, n, isapprox) ==
    IF n = 0 THEN <<>>
    ELSE MergeResult(MergeAll(res, n - 1, isapprox), res[n], isapprox)

\* for a in mymap(exactcountworker, work): counts.extend(a)
RECURSIVE ExtendAll(_, _, _)
ExtendAll(chunks, n, corpus) ==
    IF n = 0 THEN <<>>
    ELSE ExtendAll(chunks, n - 1, corpus)
            \o ExactCounts(chunks[n][3], corpus)

\* the counting phase of recurringfragments and iteratefragments; pool.map
\* and pool.imap return the results in submission order
CountAll(bitsets, np, corpus) ==
    LET chunks == CountWork(bitsets, np)
    IN  ExtendAll(chunks, Len(chunks), corpus)

\* dict(zip(keys, vals))
ZipDict(keys, vals) ==
    DictUpdate(<<>>, [i \in 1..Min(Len(keys), Len(vals)) |->
                         <<keys[i], vals[i]>>])

\* the dictionary recurringfragments returns
Returned == ZipDict(fragmentkeys, counts)

\* list(s) for a set s: the elements in an arbitrary order
Perms(S) ==
    { p \in [1..Cardinality(S) -> S] :
         \A i, j \in 1..Cardinality(S) : i # j => p[i] # p[j] }

\* lines 559-561: the keys of newfragments in the order in which the
\* workers' results, taken in the order of the plan, first bring them; in
\* the rounds explored that is the order of their names
Discovered(found) ==
    CHOOSE p \in Perms(found) :
        \A i, j \in 1..Cardinality(found) : i < j => p[i] < p[j]

\* a key no primitive has reported yet (keys are named in the order in
\* which they are first met)
Fresh == Cardinality(SeqRange(fragmentkeys)) + 1

\* the keys a closure round may report: the keys of the result that are not
\* in fragments, one key that is in fragments (whichever it is, line 568
\* drops it) and one new key
Reportable ==
    (SeqRange(fragmentkeys) \ KeySet(fragments))
        \cup {fragments[i][1] : i \in {1} \cap DOMAIN fragments}
        \cup {Fresh}

\* In this specification the occurrence value a primitive reports for a
\* key is a function of the key: the closure only looks at keys.
KeyBitset(k) == (k % 2) + 1

KeyedDicts ==
    { d \in ResultDicts : \A i \in 1..Len(d) : d[i][2] = KeyBitset(d[i][1]) }

\* the corpus the counts of closure round r are taken in: the pseudo-trees
\* of that round
RoundCorpus(r) == 2 + r

\* a plausible slip: the list is rebound to the new items
ListRebind(l, more) == more

\* l.extend(more)
ListExtend(l, more) == l \o more

\* a plausible slip: the loop bound is off by one
MoreRoundsOneMore(r) == r <= Rounds

\* the closure loop runs another iteration
MoreRounds(r) == r < Rounds

InitClosure ==
    /\ pc = "rstart"
    /\ numtrees \in 1..RegTrees
    /\ numproc \in 1..RegProc
    /\ mult = 1
    /\ twobanks = FALSE
    /\ approx = FALSE /\ nofreq = FALSE /\ complete = FALSE
    /\ coverOn \in BOOLEAN
    /\ iterate \in BOOLEAN /\ disc \in BOOLEAN
    \* the runs explored: several trees on at most two processes
    /\ numtrees > 1 => numproc <= 2
    /\ work = <<>> /\ results = <<>> /\ finished = <<>> /\ taken = {}
    /\ fragments = <<>> /\ fragmentkeys = <<>> /\ counts = <<>>
    /\ hascounts = TRUE /\ cover = <<>>
    /\ round = 0 /\ newfrags = <<>> /\ trees = 0
    /\ err = "none" /\ PrintIdle /\ MainIdle /\ ProcIdle

\* lines 453-479: the extraction jobs of the first pass, one per interval
\* of the plan; what the workers return is an input and pool.map returns
\* the list of all results, in submission order
RecFirstPass ==
    /\ pc = "rstart"
    /\ work' = Workload(numtrees, mult, numproc)
    \* lines 467-475: with numproc # 1 the jobs run on a new pool
    /\ pool' = IF numproc = 1 THEN "none" ELSE "open"
    /\ IF AssertFails(work', numtrees)
       THEN \* the assertion of a worker fails
            /\ pc' = "error" /\ err' = "AssertionError"
            /\ UNCHANGED <<results, fragments>>
       ELSE /\ results' \in [1..Len(work') -> KeyedDicts]
            /\ InOrder(DiscoveryOf(results', Len(results')), 0)
            /\ fragments' = MergeAll(results', Len(results'), FALSE)
            /\ pc' = "rcount" /\ err' = err
    /\ UNCHANGED <<printvars, mainvars, crashed, emptied, fmtvars, planvars,
                   flagvars, finished, taken,
                   fragmentkeys, counts, hascounts, cover, closurevars>>

\* lines 480-489: the keys are listed and counted exactly; the workers'
\* results are not kept
RecCount ==
    /\ pc = "rcount"
    /\ fragmentkeys' = DictKeys(fragments)
    /\ work' = CountWork(DictValues(fragments), numproc)
    /\ counts' = CountAll(DictValues(fragments), numproc, 1)
    /\ results' = <<>>
    /\ pc' = "rcover"
    /\ UNCHANGED <<err, extvars, planvars, flagvars, finished, taken,
                   fragments, hascounts, cover, closurevars>>

\* lines 491-501: the cover merge of recurringfragments (maxdepth > 0)
RecCover ==
    /\ pc = "rcover"
    /\ coverOn
    /\ cover' \in KeyedDicts
    /\ InOrder(Absent(fragments, cover'), Len(fragments))
    /\ fragmentkeys' = CoverKeys(fragmentkeys, fragments, cover')
    /\ counts' = CoverCounts(counts, fragmentkeys, fragments, cover')
    /\ pc' = "rpool"
    /\ UNCHANGED <<err, extvars, planvars, flagvars, work, results, finished, taken,
                   fragments, hascounts, closurevars>>

RecNoCover ==
    /\ pc = "rcover"
    /\ ~coverOn
    /\ pc' = "rpool"
    /\ UNCHANGED <<err, extvars, planvars, flagvars, work, results, finished, taken,
                   fragments, fragmentkeys, counts, hascounts, cover,
                   closurevars>>

\* lines 502-505: pool.close(); pool.join(); del pool
PoolClosed == IF numproc # 1 THEN "closed" ELSE pool

\* lines 502-506, 532-533: no closure asked for
RecReturn ==
    /\ pc = "rpool"
    /\ pool' = PoolClosed
    /\ ~iterate
    /\ pc' = "rdone"
    /\ UNCHANGED <<err, printvars, mainvars, crashed, emptied, fmtvars, planvars,
                   flagvars, work, results, finished, taken,
                   fragments, fragmentkeys, counts, hascounts, cover,
                   closurevars>>

\* a plausible slip: the first-pass result is returned without closure
RecUnsupportedSilent ==
    /\ pc = "rpool"
    /\ pool' = PoolClosed
    /\ iterate /\ ~disc
    /\ pc' = "rdone"
    /\ UNCHANGED <<printvars, mainvars, crashed, emptied, fmtvars, planvars,
                   flagvars, work, results, finished, taken,
                   fragments, fragmentkeys, counts, hascounts, cover,
                   closurevars>>
    /\ err' = IF pc' = "error" THEN "NotImplementedError" ELSE err

\* lines 506-508
RecUnsupported ==
    /\ pc = "rpool"
    /\ pool' = PoolClosed
    /\ iterate /\ ~disc
    /\ pc' = "error"
    /\ UNCHANGED <<printvars, mainvars, crashed, emptied, fmtvars, planvars,
                   flagvars, work, results, finished, taken,
                   fragments, fragmentkeys, counts, hascounts, cover,
                   closurevars>>
    /\ err' = IF pc' = "error" THEN "NotImplementedError" ELSE err

\* lines 509-513: newfrags = fragments; trees, sents = None, None
RecIterate ==
    /\ pc = "rpool"
    /\ pool' = PoolClosed
    /\ iterate /\ disc
    /\ newfrags' = DictKeys(fragments)
    /\ trees' = 0
    /\ round' = 0
    /\ pc' = "closure"
    /\ UNCHANGED <<err, printvars, mainvars, crashed, emptied, fmtvars, planvars,
                   flagvars, work, results, finished, taken,
                   fragments, fragmentkeys, counts, hascounts, cover,
                   iterate, disc>>

\* lines 514-531 with iteratefragments (546-584): one iteration of the
\* closure loop.  The key set of the map newfragments merged from the
\* workers' results is an input (found): at most MaxRes reportable keys.
ClosureRound ==
    /\ pc = "closure"
    /\ MoreRounds(round)
    /\ round' = round + 1
    /\ IF Len(newfrags) = 0
       THEN \* iteratefragments: raise ValueError('no trees.')
            /\ pc' = "error"
            /\ UNCHANGED <<fragments, fragmentkeys, counts, newfrags, trees>>
       ELSE IF AssertFails(Workload(Len(newfrags), 1, numproc),
                           Len(newfrags))
       THEN \* line 559: the assertion of a worker fails
            /\ pc' = "error"
            /\ UNCHANGED <<fragments, fragmentkeys, counts, newfrags, trees>>
       ELSE \E found \in SUBSET Reportable :
            \E newkeys \in Perms(SeqRange(Discovered(found))
                                     \ KeySet(fragments)) :
              LET bitsets == [i \in 1..Len(newkeys) |->
                                 KeyBitset(newkeys[i])]
                  newcounts == CountAll(bitsets, numproc,
                                        RoundCorpus(round + 1))
              IN  /\ Cardinality(found) <= MaxRes
                  /\ IF Len(newkeys) = 0
                     THEN \* break
                          /\ pc' = "rdone"
                          /\ UNCHANGED <<fragments, fragmentkeys, counts,
                                         newfrags, trees>>
                     ELSE /\ trees' = trees + Len(newfrags)
                          /\ fragmentkeys' = ListExtend(fragmentkeys, newkeys)
                          /\ counts' = ListExtend(counts, newcounts)
                          /\ fragments' =
                               DictUpdate(fragments,
                                          [i \in 1..Len(newkeys) |->
                                              <<newkeys[i], newcounts[i]>>])
                          /\ newfrags' = newkeys
                          /\ pc' = "closure"
    /\ UNCHANGED <<extvars, planvars, flagvars, work, results, finished, taken,
                   hascounts, cover, iterate, disc>>
    /\ err' = IF pc' # "error" THEN err
              ELSE IF Len(newfrags) = 0 THEN "ValueError"
              ELSE "AssertionError"

\* the loop ran out of iterations: lines 532-533
ClosureEnd ==
    /\ pc = "closure"
    /\ ~MoreRounds(round)
    /\ pc' = "rdone"
    /\ UNCHANGED <<err, extvars, planvars, flagvars, work, results, finished, taken,
                   fragments, fragmentkeys, counts, hascounts, cover,
                   closurevars>>

NextClosure ==
    \/ RecFirstPass
    \/ RecCount
    \/ RecCover
    \/ RecNoCover
    \/ RecReturn
    \/ RecUnsupported
    \/ RecIterate
    \/ ClosureRound
    \/ ClosureEnd

SpecClosure == InitClosure /\ [][NextClosure]_vars

\* --------------------------------------- specification: printfragments()
\* The fragments are the keys 1..n; in discontinuous mode a key a is the
\* pair (a[0], a[1]) of a tree and a sentence.  A count is a frequency, or
\* in indices mode the sorted sequence of the indices of a set.  A written
\* line is the sequence of its tab-separated fields.

\* the sets of indices exactcounts(..., indices=True) may report
IndexSets == { <<>>, <<0>>, <<0, 1>>, <<1, 3>>, <<0, 1, 3>> }

\* a[1:a.index(' ')]: the root label of a fragment in bracket notation;
\* the fragments k and k + 2 have the same root label
RootLabel(k) == k % 2

Labels == { RootLabel(k) : k \in 1..(MaxFrags + 1) }

\* the coordinator variables while only printfragments runs
CoordIdle ==
    /\ numtrees = 1 /\ numproc = 1 /\ mult = 1
    /\ work = <<>> /\ results = <<>> /\ finished = <<>> /\ taken = {}
    /\ fragments = <<>> /\ cover = <<>>
    /\ iterate = FALSE /\ round = 0 /\ newfrags = <<>> /\ trees = 0

\* lines 641-652: the smallest frequency that is written is threshold + 1
Threshold ==
    IF complete THEN 0
    ELSE IF twobanks \/ coverOn \/ complement \/ approx THEN 0
    ELSE 1

\* lines 641-652: a frequency at or below the threshold is fatal
ZeroInvalid == ~complete

\* '%s\t%s' % (a[0], ' '.join(...a[1])) if PARAMS['disc'] else a
FragmentFields(k) ==
    IF disc THEN << <<"tree", k>>, <<"sent", k>> >> ELSE << <<"frag", k>> >>

\* a plausible slip: the frequency is written in no-frequency mode too
NofreqLineWithCount(k) == Append(FragmentFields(k), <<"freq", 0>>)

\* line 634: out.write of no-frequency mode
NofreqLine(k) == FragmentFields(k)

\* line 680: '%s\t%d\n'
FreqLine(k, freq) == Append(FragmentFields(k), <<"freq", freq>>)

\* line 672: '%s\t%d/%d\n'
RelfreqLine(k, freq, total) ==
    Append(FragmentFields(k), <<"relfreq", freq, total>>)

\* [n for n in sorted(theindices) if n - 1 in theindices or
\* n + 1 in theindices]
AdjacentOnly(idx) ==
    SelectSeq(idx, LAMBDA n : \E i \in 1..Len(idx) :
                                 idx[i] = n - 1 \/ idx[i] = n + 1)

\* line 656: '%s\t%r\n'
IndicesLine(k, idx) ==
    Append(FragmentFields(k),
           <<"indices", IF adjacent THEN AdjacentOnly(idx) ELSE idx>>)

\* zip(fragments, counts) stops at the shorter of the two
Pairs == Min(Len(fragmentkeys), Len(counts))

InitPrint ==
    /\ pc = "print"
    /\ CoordIdle
    /\ twobanks \in BOOLEAN /\ coverOn \in BOOLEAN
    /\ approx \in BOOLEAN /\ nofreq \in BOOLEAN /\ complete \in BOOLEAN
    /\ complement \in BOOLEAN
    /\ indices \in BOOLEAN /\ relfreq \in BOOLEAN /\ adjacent \in BOOLEAN
    /\ disc \in BOOLEAN
    \* main() rejects the other combinations
    /\ complete => (twobanks /\ ~approx /\ ~nofreq /\ ~adjacent)
    /\ \E n \in 0..MaxFrags :
          /\ fragmentkeys = [i \in 1..n |-> i]
          \* regular() and batch(): counts is None only in no-frequency mode
          /\ hascounts \in (IF nofreq THEN BOOLEAN ELSE {TRUE})
          /\ counts \in (IF ~hascounts THEN {<<>>}
                          ELSE IF indices THEN [1..n -> IndexSets]
                          ELSE [1..n -> 0..MaxCount])
    /\ err = "none"
    /\ out = <<>> /\ pos = 0 /\ sums = [l \in Labels |-> 0]
    /\ MainIdle /\ ProcIdle

printframe == <<planvars, flagvars, work, results, finished, taken,
                fragments, fragmentkeys, counts, hascounts, cover,
                closurevars, indices, relfreq, complement, adjacent,
                mainvars, procvars, fmtvars>>

\* lines 619-637: the header; in no-frequency mode every fragment is
\* written without a payload and the function returns
PrintStart ==
    /\ pc = "print"
    /\ IF nofreq
       THEN /\ out' = [i \in 1..Len(fragmentkeys) |->
                         NofreqLine(fragmentkeys[i])]
            /\ pc' = "printed"
       ELSE /\ out' = out
            /\ pc' = "ploop"
    /\ UNCHANGED <<printframe, err, pos, sums>>

\* lines 675-684: one iteration of the loop of the plain sub-mode
PrintPlain ==
    /\ pc = "ploop" /\ ~indices /\ ~relfreq
    /\ pos < Pairs
    /\ LET a == fragmentkeys[pos + 1]
           freq == counts[pos + 1]
       IN  IF freq > Threshold
           THEN /\ out' = Append(out, FreqLine(a, freq))
                /\ pc' = pc /\ err' = err
           ELSE IF ZeroInvalid
           THEN /\ pc' = "error" /\ err' = "invalid fragment"
                /\ out' = out
           ELSE UNCHANGED <<pc, err, out>>
    /\ pos' = pos + 1
    /\ UNCHANGED <<printframe, sums>>

\* lines 653-663: one iteration of the loop of the indices sub-mode
PrintIndices ==
    /\ pc = "ploop" /\ indices
    /\ pos < Pairs
    /\ LET a == fragmentkeys[pos + 1]
           theindices == counts[pos + 1]
       IN  IF Len(theindices) > Threshold
           THEN /\ out' = Append(out, IndicesLine(a, theindices))
                /\ pc' = pc /\ err' = err
           ELSE IF ZeroInvalid
           THEN /\ pc' = "error" /\ err' = "invalid fragment"
                /\ out' = out
           ELSE UNCHANGED <<pc, err, out>>
    /\ pos' = pos + 1
    /\ UNCHANGED <<printframe, sums>>

\* a plausible slip: the first loop counts the fragments of a root label
\* instead of adding their frequencies
PrintRelSumCounting ==
    /\ pc = "ploop" /\ ~indices /\ relfreq
    /\ pos < Pairs
    /\ LET a == fragmentkeys[pos + 1]
           freq == counts[pos + 1]
       IN  IF freq > Threshold
           THEN IF disc
                THEN /\ pc' = "error" /\ err' = "tuple.index"
                     /\ sums' = sums
                ELSE /\ sums' = [sums EXCEPT ![RootLabel(a)] = @ + 1]
                     /\ pc' = pc /\ err' = err
           ELSE IF ZeroInvalid
           THEN /\ pc' = "error" /\ err' = "invalid fragment"
                /\ sums' = sums
           ELSE UNCHANGED <<pc, err, sums>>
    /\ pos' = pos + 1
    /\ UNCHANGED <<printframe, out>>

\* lines 664-670: one iteration of the first loop of the relative
\* frequency sub-mode; a.index(' ') raises when a is a pair
PrintRelSum ==
    /\ pc = "ploop" /\ ~indices /\ relfreq
    /\ pos < Pairs
    /\ LET a == fragmentkeys[pos + 1]
           freq == counts[pos + 1]
       IN  IF freq > Threshold
           THEN IF disc
                THEN /\ pc' = "error" /\ err' = "tuple.index"
                     /\ sums' = sums
                ELSE /\ sums' = [sums EXCEPT ![RootLabel(a)] = @ + freq]
                     /\ pc' = pc /\ err' = err
           ELSE IF ZeroInvalid
           THEN /\ pc' = "error" /\ err' = "invalid fragment"
                /\ sums' = sums
           ELSE UNCHANGED <<pc, err, sums>>
    /\ pos' = pos + 1
    /\ UNCHANGED <<printframe, out>>

\* line 671: the second loop of the relative frequency sub-mode starts
PrintRelTotals ==
    /\ pc = "ploop" /\ ~indices /\ relfreq
    /\ pos = Pairs
    /\ pc' = "pwrite"
    /\ pos' = 0
    /\ UNCHANGED <<printframe, err, out, sums>>

\* lines 671-675: one iteration of the second loop
PrintRelWrite ==
    /\ pc = "pwrite"
    /\ pos < Pairs
    /\ LET a == fragmentkeys[pos + 1]
           freq == counts[pos + 1]
       IN  IF disc
           THEN /\ pc' = "error" /\ err' = "tuple.index"
                /\ out' = out
           ELSE /\ out' = Append(out, RelfreqLine(a, freq,
                                                 sums[RootLabel(a)]))
                /\ pc' = pc /\ err' = err
    /\ pos' = pos + 1
    /\ UNCHANGED <<printframe, sums>>

\* the loop is exhausted and printfragments returns
PrintReturn ==
    /\ \/ pc = "ploop" /\ (indices \/ ~relfreq)
       \/ pc = "pwrite"
    /\ pos = Pairs
    /\ pc' = "printed"
    /\ UNCHANGED <<printframe, err, out, pos, sums>>

NextPrint ==
    \/ PrintStart
    \/ PrintPlain
    \/ PrintIndices
    \/ PrintRelSum
    \/ PrintRelTotals
    \/ PrintRelWrite
    \/ PrintReturn

SpecPrint == InitPrint /\ [][NextPrint]_vars

\* ------------------------------------------ specification: main(), batch()
\* main() from line 97 on: the options were parsed and --help is not given.
MaxArgs == 3        \* treebank arguments on the command line

\* the paths of the treebank arguments: <<directory, basename>>
Paths == { <<1, 1>>, <<1, 2>>, <<2, 2>> }

\* os.path.basename
Basename(path) == path[2]

\* the sequences over S of length n
RECURSIVE SeqsOfLen(_, _)
SeqsOfLen(S, n) ==
    IF n = 0 THEN {<<>>}
    ELSE { Append(q, x) : q \in SeqsOfLen(S, n - 1), x \in S }

\* the coordinator and formatter variables before regular() or batch() run
RunIdle ==
    /\ numtrees = 1 /\ mult = 1
    /\ work = <<>> /\ results = <<>> /\ finished = <<>> /\ taken = {}
    /\ fragments = <<>> /\ fragmentkeys = <<>> /\ counts = <<>>
    /\ hascounts = TRUE /\ cover = <<>>
    /\ iterate = FALSE /\ disc = FALSE /\ round = 0
    /\ newfrags = <<>> /\ trees = 0
    /\ indices = FALSE /\ relfreq = FALSE /\ complement = FALSE
    /\ coverOn = FALSE
    /\ out = <<>> /\ pos = 0 /\ sums = <<>>

InitMain ==
    /\ pc = "main"
    /\ RunIdle
    /\ err = "none"
    /\ complete \in BOOLEAN /\ approx \in BOOLEAN /\ nofreq \in BOOLEAN
    /\ twoterms \in BOOLEAN /\ adjacent \in BOOLEAN
    /\ batchdir \in BOOLEAN
    /\ \E n \in 0..MaxArgs : args \in SeqsOfLen(Paths, n)
    /\ missing \in BOOLEAN
    /\ missing => Len(args) > 0
    \* --numproc=n; 0 asks for cpu_count()
    /\ numproc \in 0..2
    /\ cpus \in (IF numproc = 0 THEN {1, 2} ELSE {1})
    \* no treebank is loaded yet
    /\ twobanks = FALSE
    /\ loads = <<>> /\ cur = 0 /\ files = <<>>
    /\ pool = "none" /\ crashed = {} /\ emptied = {}
    /\ alt \in BOOLEAN /\ debin \in BOOLEAN
    \* the runs explored with --alt or --debin: batch runs in
    \* complete-match mode
    /\ (alt \/ debin) =>
          (batchdir /\ complete /\ ~twoterms /\ ~adjacent /\ ~missing
             /\ numproc = 1)

mainframe == <<mult, numtrees, work, results, finished, taken, fragments,
               fragmentkeys, counts, hascounts, cover, closurevars,
               printvars, flagvars, twoterms, batchdir, args, missing,
               cpus, crashed, fmtvars>>

\* lines 101-105: numproc = int(opts.get('--numproc', 1)), cpu_count() for 0
MainOptions ==
    /\ pc = "main"
    /\ numproc' = IF numproc = 0 THEN cpus ELSE numproc
    /\ pc' = "margs"
    /\ UNCHANGED <<mainframe, pool, emptied, twobanks, err, loads, cur, files>>

\* lines 115-120: 'missing treebank argument' is only printed; a wrong
\* number of arguments without --batch ends with sys.exit(2)
MainArgCount ==
    /\ pc = "margs"
    /\ IF ~batchdir /\ Len(args) \notin {1, 2}
       THEN pc' = "error" /\ err' = "SystemExit(2)"
       ELSE pc' = "mbatch" /\ err' = err
    /\ UNCHANGED <<mainframe, pool, emptied, numproc, twobanks, loads, cur, files>>

\* a plausible slip: the check of numproc in batch mode is left out
BatchNeedsOneProcNever == FALSE

\* lines 121-122
BatchNeedsOneProc == batchdir /\ numproc # 1

\* lines 121-125
MainBatchCheck ==
    /\ pc = "mbatch"
    /\ IF BatchNeedsOneProc
       THEN pc' = "error" /\ err' = "ValueError: batch mode single-process"
       ELSE pc' = "mfiles" /\ err' = err
    /\ UNCHANGED <<mainframe, pool, emptied, numproc, twobanks, loads, cur, files>>

\* lines 126-130: args[0] raises when there is no argument
MainFiles ==
    /\ pc = "mfiles"
    /\ IF Len(args) = 0
       THEN pc' = "error" /\ err' = "IndexError"
       ELSE IF missing
       THEN pc' = "error" /\ err' = "ValueError: not found"
       ELSE pc' = "mcomplete" /\ err' = err
    /\ UNCHANGED <<mainframe, pool, emptied, numproc, twobanks, loads, cur, files>>

\* lines 131-139: the error of the checks of --complete, "none" if none
CompleteError ==
    IF ~complete THEN "none"
    ELSE IF Len(args) < 2 THEN "ValueError: need two treebanks"
    ELSE IF twoterms \/ adjacent THEN "ValueError: twoterms, adjacent"
    ELSE IF approx \/ nofreq THEN "ValueError: nofreq, approx"
    ELSE "none"

MainComplete ==
    /\ pc = "mcomplete"
    /\ IF CompleteError # "none"
       THEN pc' = "error" /\ err' = CompleteError
       ELSE pc' = "mrun" /\ err' = err
    /\ UNCHANGED <<mainframe, pool, emptied, numproc, twobanks, loads, cur, files>>

\* lines 154-155
MainCallBatch ==
    /\ pc = "mrun"
    /\ numproc = 1 /\ batchdir
    /\ pc' = "batch"
    /\ UNCHANGED <<mainframe, pool, emptied, numproc, twobanks, err, loads, cur, files>>

\* lines 156-157
MainCallRegular ==
    /\ pc = "mrun"
    /\ ~(numproc = 1 /\ batchdir)
    /\ pc' = "regular"
    /\ UNCHANGED <<mainframe, pool, emptied, numproc, twobanks, err, loads, cur, files>>

\* ---- batch()
\* the maps a primitive may return in batch(): the value of a key is a
\* function of the key and the keys are named in the order of the map
BatchDicts == { d \in KeyedDicts : InOrder(DictKeys(d), 0) }

\* lines 289-290: '%s/%s_%s' % (outputdir, basename(A), basename(B))
OutputName(a, b) == <<Basename(a), Basename(b)>>

\* printfragments(fragmentkeys, counts, out) in the plain sub-mode: the
\* lines written for the first n fragments and whether the fatal invariant
\* violation was raised
RECURSIVE PlainRun(_, _, _)
PlainRun(keys, cnts, n) ==
    IF n = 0 THEN <<<<>>, FALSE>>
    ELSE LET prev == PlainRun(keys, cnts, n - 1)
         IN  IF prev[2] THEN prev
             ELSE IF cnts[n] > Threshold
             THEN <<Append(prev[1], FreqLine(keys[n], cnts[n])), FALSE>>
             ELSE IF ZeroInvalid THEN <<prev[1], TRUE>>
             ELSE prev

\* printfragments as batch() calls it (indices and relfreq not set)
PrintRun(keys, cnts, nocounts) ==
    IF nofreq
    THEN <<[i \in 1..Len(keys) |-> NofreqLine(keys[i])], FALSE>>
    ELSE IF nocounts THEN <<<<>>, TRUE>>
    ELSE PlainRun(keys, cnts, Min(Len(keys), Len(cnts)))

\* altrepr(a): the fragment in the alternative format, another string
\* (terminals are quoted, frontier nodes lose their brackets)
AltRepr(k) == k + 10

\* debinarize: the fragments that hold binarization artefacts are
\* rewritten, the others are left as they are
Unbinarized(k) == IF k % 2 = 1 THEN k + 20 ELSE k

Debinarize(keys) == [i \in 1..Len(keys) |-> Unbinarized(keys[i])]

\* lines 294-296 with printfragments 623-625: the list batch() holds after
\* the output of a comparison; debinarize returns a new list that is bound
\* to fragmentkeys and PARAMS['alt'] rewrites the items of the list passed
KeysWritten(keys) ==
    LET debinned == IF debin THEN Debinarize(keys) ELSE keys
    IN  IF alt THEN [i \in 1..Len(debinned) |-> AltRepr(debinned[i])]
        ELSE debinned

\* fragments[a] raises KeyError for some a of fragmentkeys
MissingKey(d, keys) == \E i \in 1..Len(keys) : keys[i] \notin KeySet(d)

\* [fragments[a] for a in fragmentkeys]
LookupAll(d, keys) == [i \in 1..Len(keys) |-> DictGet(d, keys[i])]

\* a plausible slip: a failed comparison is skipped and the loop goes on
OnFailureSkip(k) == <<"bloop", k + 1>>

\* lines 267-296: nothing in the loop catches an exception; position and
\* treebank at which batch() is after comparison k raised
OnFailure(k) == <<"error", k>>

batchframe == <<mult, numtrees, numproc, work, results, finished, taken,
                cover, closurevars, printvars, approx, nofreq, complete,
                coverOn, twoterms, batchdir, args, missing, cpus, pool,
                crashed, fmtvars>>

\* lines 256-266: the reference treebank is read, once; in complete-match
\* mode its trees are the fragments
BatchInit ==
    /\ pc = "batch"
    /\ loads' = Append(loads, 1)
    /\ emptied' \in SUBSET {1}
    /\ IF EmptyError(emptied', 1) # "none"
          THEN /\ pc' = "error" /\ err' = EmptyError(emptied', 1)
               /\ UNCHANGED <<fragments, fragmentkeys, cur>>
          ELSE /\ pc' = "bloop" /\ err' = err
               /\ cur' = 2
               /\ IF complete
                  THEN /\ fragments' \in BatchDicts
                       /\ fragmentkeys' = DictKeys(fragments')
                  ELSE UNCHANGED <<fragments, fragmentkeys>>
    /\ UNCHANGED <<batchframe, twobanks, counts, hascounts, files>>

\* lines 267-271: "for filename in filenames[1:]" reads the next treebank;
\* PARAMS['trees2'] is false when it has no tree
BatchLoad ==
    /\ pc = "bloop"
    /\ cur <= Len(args)
    /\ \E outcome \in {"raised", "empty", "trees"} :
          IF outcome = "raised"
          THEN /\ pc' = OnFailure(cur)[1] /\ cur' = OnFailure(cur)[2]
               /\ err' = "corpus error"
               /\ UNCHANGED <<loads, twobanks, emptied>>
          ELSE /\ pc' = "bextract" /\ err' = err /\ cur' = cur
               /\ loads' = Append(loads, cur)
               /\ twobanks' = (outcome = "trees")
               \* read2ndtreebank (316-326) does not test the number of
               \* trees it read
               /\ emptied' = IF outcome = "empty"
                             THEN emptied \cup {cur} ELSE emptied
    /\ UNCHANGED <<batchframe, fragments, fragmentkeys, counts, hascounts,
                   files>>

\* lines 272-288: extraction (unless complete) and counting for the pair
BatchExtract ==
    /\ pc = "bextract"
    /\ \E raised \in BOOLEAN :
          IF raised
          THEN /\ pc' = OnFailure(cur)[1] /\ cur' = OnFailure(cur)[2]
               /\ err' = "extraction error"
               /\ UNCHANGED <<fragments, fragmentkeys, counts, hascounts>>
          ELSE /\ IF complete
                  THEN UNCHANGED <<fragments, fragmentkeys>>
                  ELSE /\ fragments' \in BatchDicts
                       /\ ~twobanks => fragments' = <<>>
                       /\ fragmentkeys' = DictKeys(fragments')
               /\ IF approx \/ fragments' = <<>>
                  THEN /\ counts' = DictValues(fragments')
                       /\ hascounts' = TRUE
                       /\ pc' = "bwrite" /\ err' = err /\ cur' = cur
                  ELSE IF nofreq
                  THEN /\ counts' = <<>>
                       /\ hascounts' = FALSE
                       /\ pc' = "bwrite" /\ err' = err /\ cur' = cur
                  ELSE IF MissingKey(fragments', fragmentkeys')
                  THEN \* line 284 raises
                       /\ pc' = OnFailure(cur)[1]
                       /\ cur' = OnFailure(cur)[2]
                       /\ err' = "KeyError"
                       /\ UNCHANGED <<counts, hascounts>>
                  ELSE /\ counts' =
                            ExactCounts(LookupAll(fragments', fragmentkeys'),
                                        cur)
                       /\ hascounts' = TRUE
                       /\ pc' = "bwrite" /\ err' = err /\ cur' = cur
    /\ UNCHANGED <<batchframe, emptied, twobanks, loads, files>>

\* lines 289-296: the output file is opened for writing (truncated) and
\* printfragments writes to it
BatchWrite ==
    /\ pc = "bwrite"
    /\ \E raised \in BOOLEAN :
          LET name == OutputName(args[1], args[cur])
              run == PrintRun(KeysWritten(fragmentkeys), counts, ~hascounts)
          IN  IF raised
              THEN /\ pc' = OnFailure(cur)[1] /\ cur' = OnFailure(cur)[2]
                   /\ err' = "IOError"
                   /\ files' = files
                   /\ fragmentkeys' = fragmentkeys
              ELSE /\ files' = DictSet(files, name, <<cur, run[1]>>)
                   /\ fragmentkeys' = KeysWritten(fragmentkeys)
                   /\ IF run[2]
                      THEN /\ pc' = OnFailure(cur)[1]
                           /\ cur' = OnFailure(cur)[2]
                           /\ err' = "invalid fragment"
                      ELSE /\ pc' = "bloop" /\ cur' = cur + 1
                           /\ err' = err
    /\ UNCHANGED <<batchframe, emptied, twobanks, loads, fragments, counts,
                   hascounts>>

\* the loop is exhausted: batch() and main() return
BatchDone ==
    /\ pc = "bloop"
    /\ cur > Len(args)
    /\ pc' = "done"
    /\ UNCHANGED <<batchframe, emptied, twobanks, err, loads, cur, fragments,
                   fragmentkeys, counts, hascounts, files>>

NextMain ==
    \/ MainOptions
    \/ MainArgCount
    \/ MainBatchCheck
    \/ MainFiles
    \/ MainComplete
    \/ MainCallBatch
    \/ MainCallRegular
    \/ RegularLoad
    \/ BatchInit
    \/ BatchLoad
    \/ BatchExtract
    \/ BatchWrite
    \/ BatchDone

SpecMain == InitMain /\ [][NextMain]_vars

\* ------------------- specification: a run of fragments.py, main() to return
\* main() to the return of batch() or regular(), and regular() on its own
\* with the inputs main() does not explore
InitRun == InitMain \/ InitRegular

NextRun == NextMain \/ NextRegular

SpecRun == InitRun /\ [][NextRun]_vars


\* ------------------ specification: the coordinators regular() and
\* recurringfragments(), each from its own initial states
InitJobs == InitRegular \/ InitClosure

NextJobs == NextRegular \/ NextClosure

SpecJobs == InitJobs /\ [][NextJobs]_vars


\* ---------------------------- specification: the plans and their dispatch
\* the planner on its own range of sizes together with the runs of
\* regular() and recurringfragments() that dispatch the intervals
InitDispatch == InitPlan \/ InitJobs

NextDispatch == NextPlan \/ NextJobs

SpecDispatch == InitDispatch /\ [][NextDispatch]_vars


\* ------------------------------------------------------------ properties
\* the intervals of w partition [0, n): first starts at 0, each starts
\* where the previous ends, the last ends at n, none is empty
Partitions(w, n) ==
    /\ Len(w) >= 1
    /\ w[1][1] = 0
    /\ w[Len(w)][2] = n
    /\ \A i \in 1..Len(w) : w[i][1] < w[i][2]
    /\ \A i \in 1..(Len(w) - 1) : w[i][2] = w[i + 1][1]

\* C1: for numtrees > 1 the cost-based plan partitions [0, numtrees) into
\* non-empty consecutive intervals, at most numproc * mult + 1 of them.
WorkloadPartitions ==
    (pc = "planned" /\ ~twobanks /\ numtrees > 1) =>
        /\ Partitions(work, numtrees)
        /\ Len(work) <= numproc * mult + 1

WorkloadPartitionsWitness ==
    /\ pc = "planned" /\ ~twobanks /\ numtrees > 1 /\ numproc > 1
    /\ Len(work) >= 3

\* C2: the size-based plan is pairwise disjoint and exactly covers
\* [0, numtrees): no interval ends past numtrees.
SizeWorkExactCover ==
    (pc = "planned" /\ twobanks) => Partitions(work, numtrees)

\* ---------------------------------------- properties of the merge phases
\* all extraction results have been merged
Merged ==
    /\ ~complete
    /\ \/ pc = "extract" /\ AllTaken
       \/ pc \in {"count", "cover", "teardown", "done", "error"}

\* the intervals (jobs) whose result reports key k
Reporting(k) == { i \in 1..Len(results) : k \in KeySet(results[i]) }

ReportedKeys == UNION { KeySet(results[i]) : i \in 1..Len(results) }

RECURSIVE SumOver(_, _)
SumOver(k, jobs) ==
    IF jobs = {} THEN 0
    ELSE LET i == CHOOSE x \in jobs : TRUE
         IN  DictGet(results[i], k) + SumOver(k, jobs \ {i})

Max(S) == CHOOSE x \in S : \A y \in S : y <= x

\* the value the last interval, in planning order, reports for k
LastReport(k) == DictGet(results[Max(Reporting(k))], k)

\* the keys of the first n results in planning order, each key once, at
\* the place of its first occurrence
Discovery(n) == DiscoveryOf(results, n)

\* C3: the merged map is a function of the list of results alone, whatever
\* the order in which the workers complete: its keys are in the order of
\* first discovery over the intervals in planning order, and the value of
\* a key is the sum of the reports (approximate) or the report of the last
\* interval in planning order (exact).
MergeOrderIndependent ==
    Merged =>
        /\ DictKeys(fragments) = Discovery(Len(results))
        /\ \A k \in KeySet(fragments) :
              DictGet(fragments, k) =
                 IF approx THEN SumOver(k, Reporting(k)) ELSE LastReport(k)

\* two workers, the second interval completes first, and the two results
\* disagree on the order of their keys and on the value of a key
MergeOrderIndependentWitness ==
    /\ pc = "extract" /\ AllTaken /\ ~approx
    /\ finished = <<2, 1>>
    /\ Len(results[1]) = 2 /\ Len(results[2]) = 2
    /\ DictKeys(results[1]) # DictKeys(results[2])
    /\ \E k \in Keys : /\ k \in KeySet(results[1]) \cap KeySet(results[2])
                       /\ DictGet(results[1], k) # DictGet(results[2], k)

\* C4: in approximate mode the merged value of every key is the sum of the
\* values all intervals report for it, and the merged key set is the union
\* of the workers' key sets.
ApproxMergeSums ==
    (Merged /\ approx) =>
        /\ KeySet(fragments) = ReportedKeys
        /\ \A k \in ReportedKeys :
              DictGet(fragments, k) = SumOver(k, Reporting(k))

\* {A:1} and {A:2} were merged to {A:3}
ApproxMergeSumsWitness ==
    /\ Merged /\ approx /\ pc = "done"
    /\ \E k \in Keys : /\ Reporting(k) = {1, 2}
                       /\ DictGet(results[1], k) = 1
                       /\ DictGet(results[2], k) = 2
                       /\ DictGet(fragments, k) = 3

\* C5: in exact mode the merge is a union, not a sum: the merged key set is
\* the union of the workers' key sets, and a key for which every worker
\* reports the same value v is merged to v.
ExactMergeUnion ==
    (Merged /\ ~approx) =>
        /\ KeySet(fragments) = ReportedKeys
        /\ \A k \in ReportedKeys : \A v \in Vals :
              (\A i \in Reporting(k) : DictGet(results[i], k) = v)
                 => DictGet(fragments, k) = v

\* {A:v} merged with {A:v} gave {A:v}
ExactMergeUnionWitness ==
    /\ Merged /\ ~approx /\ pc = "done"
    /\ \E k \in Keys : /\ Reporting(k) = {1, 2}
                       /\ DictGet(results[1], k) = DictGet(results[2], k)
                       /\ DictGet(fragments, k) = DictGet(results[1], k)

\* C6: after the exact counting phase counts is as long as fragmentkeys and
\* counts[i] is the count of the value of fragmentkeys[i], for every
\* numproc and every number of fragments.
CountsFollowKeys ==
    (pc = "count" /\ AllTaken) =>
        /\ Len(counts) = Len(fragmentkeys)
        /\ \A i \in 1..Len(fragmentkeys) :
              counts[i] = ExactCountOf(DictGet(fragments, fragmentkeys[i]),
                                       CountCorpus)

\* two count chunks, the second completed first, distinct counts
CountsFollowKeysWitness ==
    /\ pc = "count" /\ AllTaken
    /\ Len(work) = 2 /\ finished = <<2, 1>>
    /\ Len(counts) = 2 /\ counts[1] # counts[2]

CountsFollowKeysEmptyWitness ==
    /\ pc = "count" /\ AllTaken /\ fragmentkeys = <<>> /\ counts = <<>>

\* C7: the cover merge never overwrites: it leaves the keys and counts of
\* the main result in place and appends, in cover's order, exactly the
\* cover keys absent from the main result, each with its cover count.
CoverNeverOverwrites ==
    [][ (CountDone /\ pc' = "teardown" /\ coverOn) =>
          /\ SubSeq(fragmentkeys', 1, Len(fragmentkeys)) = fragmentkeys
          /\ SubSeq(fragmentkeys', Len(fragmentkeys) + 1, Len(fragmentkeys'))
                = SelectSeq(DictKeys(cover'),
                            LAMBDA k : k \notin KeySet(fragments))
          /\ hascounts =>
               /\ Len(counts') = Len(fragmentkeys')
               /\ SubSeq(counts', 1, Len(counts)) = counts
               /\ \A i \in (Len(counts) + 1)..Len(counts') :
                     counts'[i] = DictGet(cover', fragmentkeys'[i])
      ]_vars

\* the main result holds X, the cover holds X with another count and a key
\* Y the main result lacks: X keeps its count and Y is appended
CoverNeverOverwritesWitness ==
    /\ pc = "teardown" /\ coverOn /\ hascounts
    /\ Len(cover) = 2
    /\ \E i \in 1..Len(fragments) :
          /\ fragmentkeys[i] \in KeySet(cover)
          /\ counts[i] # DictGet(cover, fragmentkeys[i])
    /\ Len(fragmentkeys) = Len(fragments) + 1
    /\ counts[Len(counts)] = DictGet(cover, fragmentkeys[Len(fragmentkeys)])

\* ------------------------------------ properties of the iterative closure
\* every job returns: the coordinator always gets to take its next step
FairSpecClosure == SpecClosure /\ WF_vars(NextClosure)

\* C8: when every worker job returns, recurringfragments ends (it returns
\* or raises) and its closure loop never starts more than 10 rounds,
\* whatever the primitives return and for every numproc.
ClosureWithinRounds ==
    /\ [](round <= Rounds)
    /\ <>(pc \in {"rdone", "error"})

\* ten rounds each found a new key, on several processes, and the function
\* returned
ClosureWithinRoundsWitness ==
    /\ pc = "rdone" /\ round = Rounds /\ numproc > 1
    /\ Len(fragmentkeys) >= Rounds

\* C9: every key a closure round appends is absent from everything
\* accumulated so far, so the key sequence never holds a key twice.
ClosureKeysDistinct ==
    (iterate /\ disc /\ pc \in {"closure", "rdone"}) =>
        \A i, j \in 1..Len(fragmentkeys) :
            i # j => fragmentkeys[i] # fragmentkeys[j]

\* C10: a closure round leaves the returned count of every key that was in
\* the result before the round as it was.
ClosureKeepsCounts ==
    [][ (pc = "closure" /\ round' = round + 1) =>
          \A k \in SeqRange(fragmentkeys) :
              DictGet(Returned', k) = DictGet(Returned, k)
      ]_vars

\* C11: across the rounds of the closure the accumulated keys only grow:
\* every step of the closure loop keeps every key of the key list and
\* every key of the fragment map.
ClosureKeysGrow ==
    [][ pc = "closure" =>
          /\ SeqRange(fragmentkeys) \subseteq SeqRange(fragmentkeys')
          /\ KeySet(fragments) \subseteq KeySet(fragments')
      ]_vars

\* two rounds have run and at least one of them added keys to a result
\* that already held some
ClosureKeysGrowWitness ==
    /\ pc \in {"closure", "rdone"} /\ round >= 2 /\ trees > 0
    /\ Len(fragmentkeys) >= 3

\* --------------------------------------------- properties of the formatter
\* the count of fragment i is n: a frequency n, or a set of n indices
CountIs(i, n) ==
    IF indices THEN Len(counts[i]) = n ELSE counts[i] = n

\* line l is the line of fragment k and its payload is zero
ZeroLine(l, k) ==
    /\ Len(l) = Len(FragmentFields(k)) + 1
    /\ SubSeq(l, 1, Len(l) - 1) = FragmentFields(k)
    /\ IF indices THEN l[Len(l)][2] = <<>> ELSE l[Len(l)][2] = 0

\* printfragments has returned or raised
PrintOver == pc \in {"printed", "error"}

\* C12: in complete-match mode printfragments accepts a fragment with
\* count 0 (it is not rejected as invalid) and, when it returns, it has
\* written a line for that fragment with payload 0.
CompleteZeroWritten ==
    \A i \in 1..Pairs :
        (complete /\ CountIs(i, 0) /\ PrintOver)
           => /\ err # "invalid fragment"
              /\ pc = "printed" =>
                    \E l \in 1..Len(out) : ZeroLine(out[l], fragmentkeys[i])

\* pure single-corpus recurring mode with frequencies
PureRecurring ==
    /\ ~twobanks /\ ~coverOn /\ ~complement /\ ~approx /\ ~complete
    /\ ~nofreq

\* C13: in pure single-corpus recurring mode printfragments given a
\* fragment with count 1 (or a set of one index) ends by raising the fatal
\* invariant violation, in the plain, indices and relative frequency
\* sub-modes.
PureOneFatal ==
    \A i \in 1..Pairs :
        (PureRecurring /\ CountIs(i, 1) /\ PrintOver)
           => (pc = "error" /\ err = "invalid fragment")

\* cross-corpus, cover, complement or approximate mode with frequencies
ThresholdZeroMode ==
    /\ ~complete /\ ~nofreq
    /\ twobanks \/ coverOn \/ complement \/ approx

\* fragment i has its line in the output
Written(i) ==
    \E l \in 1..Len(out) :
        /\ Len(out[l]) = Len(FragmentFields(fragmentkeys[i])) + 1
        /\ SubSeq(out[l], 1, Len(out[l]) - 1)
              = FragmentFields(fragmentkeys[i])

\* C14: in cross-corpus, cover, complement or approximate mode the
\* threshold is 0: a fragment with count 0 makes printfragments raise the
\* fatal invariant violation, and otherwise it returns having written
\* every fragment (all have count >= 1).
ThresholdZero ==
    (ThresholdZeroMode /\ PrintOver) =>
        IF \E i \in 1..Pairs : CountIs(i, 0)
        THEN pc = "error" /\ err = "invalid fragment"
        ELSE pc = "printed" /\ \A i \in 1..Pairs : Written(i)

ConfigErrors ==
    { "SystemExit(2)", "ValueError: batch mode single-process",
      "ValueError: not found", "ValueError: need two treebanks",
      "ValueError: twoterms, adjacent", "ValueError: nofreq, approx" }

\* the positions of main() before regular() or batch() is called
Validating == {"main", "margs", "mbatch", "mfiles", "mcomplete"}

\* C16: complete-match mode with two-terminal-only, adjacency-only,
\* approximate or no-frequency mode, or with fewer than two treebanks, is
\* rejected by main with a configuration error: no treebank is read, neither
\* regular() nor batch() is called, and main ends with one of its own
\* rejections.
CompleteRejected ==
    (complete /\ (twoterms \/ adjacent \/ approx \/ nofreq \/ Len(args) < 2))
       => /\ loads = <<>>
          /\ pc \in Validating \cup {"error"}
          /\ pc = "error" => err \in ConfigErrors

InBatch == {"bloop", "bextract", "bwrite", "done"}

\* the file that holds the output of the comparison with args[k]
ArtifactOf(k) == DictGet(files, OutputName(args[1], args[k]))

\* C18: batch() reads the reference treebank exactly once, then reads the
\* other treebanks one after the other in the order given, and when it
\* returns the output directory holds, for every other treebank B, the
\* artifact named after (A, B) with the output of the comparison with B:
\* distinct treebanks never share an artifact.
BatchOneArtifactEach ==
    (pc \in InBatch) =>
        /\ Len(loads) >= 1
        /\ \A i \in 1..Len(loads) : loads[i] = i
        /\ pc = "done" =>
              /\ Len(loads) = Len(args)
              /\ \A k \in 2..Len(args) :
                    /\ OutputName(args[1], args[k]) \in KeySet(files)
                    /\ args[ArtifactOf(k)[1]] = args[k]

\* C19: batch() fails fast: once a comparison has raised, batch() is over
\* with that error; no later treebank is read, no later comparison is run
\* and no further artifact is created.
BatchFailFast ==
    [][ (cur >= 2 /\ err # "none") =>
           (pc = "error" /\ UNCHANGED <<pc, err, cur, loads, files>>) ]_vars

\* the first of two comparisons raised after its treebank was read: the
\* second treebank is never read and the directory stays empty
BatchFailFastWitness ==
    /\ pc = "error" /\ cur = 2 /\ Len(args) = 3
    /\ err = "extraction error"
    /\ loads = <<1, 2>> /\ files = <<>>

\* the number of processes main() works with
EffectiveProc == IF pc = "main" /\ numproc = 0 THEN cpus ELSE numproc

\* C20: batch mode with numproc other than 1 is rejected by main with the
\* configuration error before any treebank is read, so that batch() only
\* ever runs with numproc = 1.
BatchSingleProcess ==
    /\ (batchdir /\ EffectiveProc # 1) =>
          /\ loads = <<>>
          /\ pc \in {"main", "margs", "mbatch", "error"}
          /\ pc = "error" => err = "ValueError: batch mode single-process"
    /\ (pc \in InBatch \cup {"batch"}) => numproc = 1

\* batch mode on as many processes as there are CPUs was rejected
BatchSingleProcessWitness ==
    /\ batchdir /\ cpus = 2 /\ numproc = 2 /\ pc = "error"
    /\ Len(args) = 3 /\ ~missing
    /\ err = "ValueError: batch mode single-process"


\* C21: a worker crash is not detected. Once the worker process that
\* executes job j of the extraction or counting phase has died, the
\* coordinator stays in that phase for ever: job j never completes, its
\* result is never consumed, no later phase starts, regular() never returns
\* and no error is reported
CrashStalls ==
    \A c \in crashed :
       /\ pc = c[1]
       /\ c[2] \notin SeqRange(finished)
       /\ c[2] \notin taken
       /\ err = "none"

\* a counting job is lost after the result of an earlier one was consumed
CrashStallsWitness ==
    /\ \E c \in crashed : c[1] = "count" /\ c[2] > 1
    /\ 1 \in taken


CorpusErrors ==
    {"ValueError: treebank1 empty.", "ValueError: treebank2 empty."}

\* C22: initworker fails with a corpus error when treebank1 has no tree,
\* and when a second treebank is given and has no tree; regular() runs it
\* in the coordinator before the worker pool is created, so after a corpus
\* error no pool exists and no work interval was planned or dispatched
EmptyCorpusFails ==
    /\ 1 \in emptied =>
          pc = "error" /\ err = "ValueError: treebank1 empty."
    /\ (Len(args) = 2 /\ 2 \in emptied) =>
          pc = "error" /\ err \in CorpusErrors
    /\ err \in CorpusErrors =>
          /\ pool = "none"
          /\ work = <<>> /\ results = <<>> /\ finished = <<>>
          /\ taken = {}

\* only the second treebank is empty and several processes were asked for
EmptyCorpusFailsWitness ==
    /\ emptied = {2} /\ numproc > 1
    /\ err = "ValueError: treebank2 empty."


\* the counts collected so far are the exact counts, in the treebank at
\* position corpus of the arguments, of the bitsets of the first fragments
CountedIn(corpus) ==
    /\ Len(counts) <= Len(fragments)
    /\ \A i \in 1..Len(counts) :
          counts[i] = ExactCountOf(fragments[i][2], corpus)

\* C23: the exact counts of regular() are counts in treebank1, also when
\* two treebanks are given, unless complete-match mode is set, and then
\* they are counts in treebank2; the exact counts of batch() are counts in
\* the other treebank B of the comparison
ExactCountCorpus ==
    /\ pc = "count" => CountedIn(IF complete THEN 2 ELSE 1)
    /\ (pc = "bwrite" /\ hascounts /\ ~approx /\ fragments # <<>>) =>
          (cur >= 2 /\ CountedIn(cur))

\* regular() has counted, in treebank1, fragments of two treebanks
ExactCountCorpusWitness ==
    /\ pc = "count" /\ twobanks /\ ~complete
    /\ Len(counts) = Len(fragments) /\ counts # <<>>

\* batch() has counted fragments in its second other treebank
ExactCountCorpusBatchWitness ==
    /\ pc = "bwrite" /\ hascounts /\ ~approx /\ counts # <<>> /\ cur = 3


\* C24: with numproc = 1 the cost-based plan is the single interval
\* [(0, numtrees)], whatever numtrees and mult
SingleProcessOneInterval ==
    (pc = "planned" /\ ~twobanks /\ numproc = 1) =>
        work = << <<0, numtrees>> >>

SingleProcessOneIntervalWitness ==
    /\ pc = "planned" /\ ~twobanks /\ numproc = 1
    /\ numtrees = MaxTrees /\ mult = MaxMult


\* C25: in complete-match mode regular() finishes the counting phase,
\* closes its worker pool and returns the keys and counts, for every
\* numproc >= 1: once the counts are complete it never ends with an error
\* and it ends with the pool closed whenever there was one
CompleteReturns ==
    (complete /\ pc \in {"done", "error"} /\ emptied = {}) =>
        /\ pc = "done" /\ err = "none"
        /\ Len(counts) = Len(fragmentkeys)
        /\ numproc # 1 => pool = "closed"


\* the extraction jobs of regular() have all been consumed
ExtractionOver ==
    /\ ~complete
    /\ \/ pc = "extract" /\ AllTaken
       \/ pc \in {"count", "cover", "teardown", "done"}

\* the keys reported by the results of the jobs in S
KeysOf(S) == UNION { KeySet(results[i]) : i \in S }

AllResultsMergedFirstPassWitness ==
    /\ pc = "rcount" /\ Len(results) = 2
    /\ KeySet(results[1]) \ KeySet(results[2]) # {}
    /\ KeySet(results[2]) \ KeySet(results[1]) # {}


\* C27: the phases are separated by barriers.  The counting phase starts
\* only when the result of every extraction job has been merged; the cover
\* merge starts only when the result of every count job has been collected,
\* so that there is a count for every key; and a closure round starts only
\* when the keys and counts of the round before are in the result
PhaseBarriers ==
    [][ /\ (pc' = "count" /\ pc # "count") =>
              \/ pc = "merged"
              \/ /\ pc = "extract"
                 /\ taken = 1..Len(work)
                 /\ KeySet(fragments) = KeysOf(1..Len(results))
        /\ (pc \in {"count", "cover"} /\ pc' \in {"teardown", "error"}) =>
              /\ pc = "count" => taken = 1..Len(work)
              /\ hascounts => Len(counts) = Len(fragmentkeys)
        /\ round' = round + 1 =>
              /\ Len(counts) = Len(fragmentkeys)
              /\ SeqRange(newfrags) \subseteq SeqRange(fragmentkeys)
              /\ SeqRange(newfrags) \subseteq KeySet(fragments)
              /\ round > 0 =>
                    newfrags = SubSeq(fragmentkeys,
                                      Len(fragmentkeys) - Len(newfrags) + 1,
                                      Len(fragmentkeys))
      ]_vars

\* regular() went through both barriers, with two count jobs and a cover
PhaseBarriersWitness ==
    /\ pc = "teardown" /\ ~approx /\ ~nofreq /\ ~complete /\ coverOn
    /\ Len(results) = 1 /\ Len(work) = 2 /\ Len(counts) >= 2

\* a third closure round has started
PhaseBarriersRoundWitness == round = 3 /\ Len(fragmentkeys) >= 3


\* C28: with both no-frequency mode and cover mode set regular() returns
\* normally: the keys are the recurring fragments followed by the cover
\* fragments that were absent, and there are no counts
NofreqCoverReturns ==
    (nofreq /\ coverOn /\ pc \in {"teardown", "done", "error"}
       /\ emptied = {}) =>
        /\ pc # "error" /\ err = "none"
        /\ ~hascounts
        /\ fragmentkeys = DictKeys(fragments) \o Absent(fragments, cover)


\* the chunks of w, one after the other
RECURSIVE Chunked(_, _)
Chunked(w, n) ==
    IF n = 0 THEN <<>> ELSE Chunked(w, n - 1) \o w[n][3]

\* C29 as stated: the counting phase splits the list of fragment values
\* into exactly numproc contiguous chunks of equal size, for every list
\* length and every numproc
CountChunksEqual ==
    pc = "chunked" =>
        /\ Len(work) = numproc
        /\ Chunked(work, Len(work)) = DictValues(fragments)
        /\ \A i, j \in 1..Len(work) : Len(work[i][3]) = Len(work[j][3])

\* C29, amended: the counting phase splits the list of fragment values
\* into at most numproc contiguous chunks that follow one another and make
\* up the list; every chunk but the last holds len // numproc + 1 values
\* and the last holds at least one and at most that many (an empty list
\* gives no chunk)
CountChunksCover ==
    pc = "chunked" =>
        LET size == (Len(fragments) \div numproc) + 1
        IN  /\ Len(work) <= numproc
            /\ Chunked(work, Len(work)) = DictValues(fragments)
            /\ \A i \in 1..(Len(work) - 1) : Len(work[i][3]) = size
            /\ Len(work) > 0 =>
                  Len(work[Len(work)][3]) \in 1..size

\* as many chunks as processes, the last one shorter
CountChunksCoverWitness ==
    /\ pc = "chunked" /\ numproc >= 3 /\ Len(work) = numproc
    /\ Len(work[Len(work)][3]) < Len(work[1][3])


\* C30: when the first pass of recurringfragments finds no recurring
\* fragment, a call with iterate and disc set returns the first-pass
\* result, the cover fragments if any, and raises nothing
EmptyFirstPassReturns ==
    (iterate /\ disc /\ fragments = <<>> /\ pc \in {"rdone", "error"}) =>
        /\ pc = "rdone" /\ err = "none"
        /\ fragmentkeys = Absent(fragments, cover)


\* C31: recurringfragments validates its mode before any work: with
\* iterate set and disc not set, no worker pool is ever created and no
\* extraction or counting job is ever dispatched
UnsupportedBeforeWork ==
    (iterate /\ ~disc) =>
        /\ pool = "none"
        /\ work = <<>> /\ results = <<>>
        /\ fragments = <<>> /\ counts = <<>>


\* C32: in batch complete-match mode the key list and the fragment map
\* computed from the reference treebank stay as they were computed for
\* every comparison: the keys are those of the map, whatever was written
\* for the comparisons before, and no lookup of a key fails
BatchKeysStable ==
    (batchdir /\ complete /\ loads # <<>> /\ emptied = {}) =>
        /\ fragmentkeys = DictKeys(fragments)
        /\ err # "KeyError"


\* C33: in batch mode a treebank to compare with that has no trees ends
\* the run with a corpus error as soon as it is loaded: nothing is
\* extracted, counted or written for that pair
BatchEmptyCorpusFails ==
    (batchdir /\ \E k \in emptied : k >= 2) =>
        /\ pc = "error" /\ err \in CorpusErrors \cup {"corpus error"}
        /\ \A k \in emptied : \A i \in 1..Len(files) : files[i][2][1] # k


\* C34: the keys a closure round appends are in the order in which the
\* round first met them, so that the order of the returned keys follows
\* from the input
RoundKeysInDiscoveryOrder ==
    (pc = "closure" /\ round > 0) =>
        newfrags = Discovered(SeqRange(newfrags))


\* the number of comparisons of the interval <<a, b>>: the pairs (k, x)
\* with k in the interval and k < x < numtrees
IntervalCost(iv) ==
    Cardinality({ p \in (iv[1]..(iv[2] - 1)) \X (0..(numtrees - 1)) :
                     p[1] < p[2] })

\* C35: with more than one process every interval of the cost-based plan
\* costs less than total/(mult*numproc) + numtrees comparisons, where
\* total = numtrees*(numtrees-1)/2 (the inequality is multiplied by
\* mult*numproc to stay within the integers)
NearEqualCost ==
    (pc = "planned" /\ ~twobanks /\ numproc > 1) =>
        \A i \in 1..Len(work) :
            (IntervalCost(work[i]) - numtrees) * mult * numproc
                < (numtrees * (numtrees - 1)) \div 2

\* a plan of several intervals, one of which costs more than
\* total/(mult*numproc) comparisons and one less
NearEqualCostWitness ==
    /\ pc = "planned" /\ ~twobanks /\ numproc > 1
    /\ Len(work) >= 3
    /\ \E i, j \in 1..Len(work) :
          /\ IntervalCost(work[i]) * mult * numproc
                > (numtrees * (numtrees - 1)) \div 2
          /\ IntervalCost(work[j]) * mult * numproc
                < (numtrees * (numtrees - 1)) \div 2


\* C36: printfragments validates before it writes: when it raises the
\* fatal 'invalid fragment' error it has written no line, in the plain,
\* the indices and the relative frequency sub-mode
ValidatesBeforeWriting ==
    err = "invalid fragment" => out = <<>>

\* the sum of the frequencies of the fragments that have the root label l
RECURSIVE GroupTotal(_, _)
GroupTotal(l, n) ==
    IF n = 0 THEN 0
    ELSE GroupTotal(l, n - 1)
            + (IF RootLabel(fragmentkeys[n]) = l THEN counts[n] ELSE 0)

\* C37: in the relative frequency sub-mode the payload of every written
\* line is count/groupTotal, where groupTotal is the sum of the counts of
\* all the fragments with the root label of the line's fragment, so the
\* fragments of one root label have the same denominator
RelfreqGroupTotals ==
    (relfreq /\ ~indices /\ ~nofreq) =>
        \A i \in 1..Len(out) :
            out[i][Len(out[i])] =
                <<"relfreq", counts[i],
                  GroupTotal(RootLabel(fragmentkeys[i]), Pairs)>>

\* three lines were written, two of them for fragments with the same root
\* label and frequencies that differ
RelfreqGroupTotalsWitness ==
    /\ relfreq /\ ~indices /\ ~nofreq
    /\ pc = "printed" /\ Len(out) = 3
    /\ RootLabel(fragmentkeys[1]) = RootLabel(fragmentkeys[3])
    /\ counts[1] # counts[3]
    /\ out[1][Len(out[1])][3] = counts[1] + counts[3]


\* C38: the assertion of worker, offset < number of trees of treebank1,
\* holds for every interval that regular(), recurringfragments() and
\* iteratefragments() dispatch, with the cost-based and with the
\* size-based plan: no run ends with AssertionError and every interval of
\* a plan starts below the number of trees
WorkerAssertionHolds ==
    /\ err # "AssertionError"
    /\ pc \in {"planned", "extract", "rcount"} =>
          ~AssertFails(work, numtrees)
    /\ (pc = "closure" /\ newfrags # <<>>) =>
          ~AssertFails(Workload(Len(newfrags), 1, numproc), Len(newfrags))

\* the worker of the last interval of a plan of several intervals has
\* returned; the interval starts at the last tree
WorkerAssertionWitness ==
    /\ pc = "extract" /\ Len(work) >= 2
    /\ work[Len(work)][1] = numtrees - 1
    /\ \E i \in 1..Len(finished) : finished[i] = Len(work)

====
